---- MODULE Spec2Model ----
(***************************************************************************)
(* Model of src/src/rigid_body.rs (rg3d-physics): the RigidBody state, its *)
(* accessors, the Verlet integration step, the two collision-resolution    *)
(* operations, Clone and the Visit (persistence) implementation.           *)
(*                                                                         *)
(* Numbers.  An f32 is modelled as a fixed-point number: the integer n     *)
(* stands for the real n / Unit.  Sums and differences are exact, a        *)
(* product or a quotient is rounded to the nearest representable value     *)
(* (as f32 arithmetic rounds), a squared length is kept in units of        *)
(* 1 / Unit^2 (exact).  NaN and the infinities are not modelled.           *)
(* An unsigned integer wider than TLC's integers (u32, u64, usize) is a    *)
(* sequence of 16-bit limbs, most significant first.                       *)
(***************************************************************************)
EXTENDS Integers, Sequences, FiniteSets

VARIABLES
    bodies,   \* [Ids -> RigidBody]: the bodies of the simulation
    visitor,  \* the persisted fields, in the order they were written
    last,     \* the last operation: its name, arguments, and the bodies before it
    steps     \* number of operations performed so far

vars == <<bodies, visitor, last, steps>>

----------------------------------------------------------------------------
(* Bounds of the model *)

\* operations performed in one behaviour of Spec
MaxSteps == 2
\* verlet calls in one behaviour of SpecVerlet
MaxVerletSteps == 2

Ids == {1, 2}

----------------------------------------------------------------------------
(* f32 as fixed point *)

\* the fixed-point resolution: n stands for n / Unit
Unit == 1000

\* n / d rounded to the nearest integer, d > 0
RoundDiv(n, d) ==
    IF n >= 0 THEN (2 * n + d) \div (2 * d)
    ELSE -((2 * (-n) + d) \div (2 * d))

\* f32 product a * b
Mul(a, b) == RoundDiv(a * b, Unit)

RECURSIVE SqrtSearch(_, _, _)
\* the largest r in lo..hi with r * r <= n
SqrtSearch(n, lo, hi) ==
    IF lo >= hi THEN lo
    ELSE LET mid == (lo + hi + 1) \div 2
         IN IF mid * mid <= n THEN SqrtSearch(n, mid, hi)
            ELSE SqrtSearch(n, lo, mid - 1)

\* f32::sqrt of n / Unit^2, in units of 1 / Unit, rounded to nearest
Sqrt(n) ==
    LET r == SqrtSearch(n, 0, 46340)
    IN IF n - r * r > r THEN r + 1 ELSE r

----------------------------------------------------------------------------
(* Option<T> *)

None == <<>>
Some(v) == <<v>>
IsSome(o) == o # <<>>
Unwrap(o) == o[1]

----------------------------------------------------------------------------
(* Vec3 *)

Vec3(x, y, z) == [x |-> x, y |-> y, z |-> z]
ZERO == Vec3(0, 0, 0)
UP == Vec3(0, Unit, 0)

VAdd(a, b) == Vec3(a.x + b.x, a.y + b.y, a.z + b.z)
VSub(a, b) == Vec3(a.x - b.x, a.y - b.y, a.z - b.z)
VNeg(a) == Vec3(-a.x, -a.y, -a.z)
scale(a, k) == Vec3(Mul(a.x, k), Mul(a.y, k), Mul(a.z, k))
\* in units of 1 / Unit^2
sqr_len(a) == a.x * a.x + a.y * a.y + a.z * a.z
len(a) == Sqrt(sqr_len(a))
Dot(a, b) == a.x * b.x + a.y * b.y + a.z * b.z

\* Vec3::normalized: None for a vector of no length, else the vector
\* divided by its length
normalized(a) ==
    LET l == len(a)
    IN IF l = 0 THEN None
       ELSE Some(Vec3(RoundDiv(a.x * Unit, l), RoundDiv(a.y * Unit, l),
                      RoundDiv(a.z * Unit, l)))

unwrap_or(o, d) == IF IsSome(o) THEN Unwrap(o) ELSE d

----------------------------------------------------------------------------
(* Unsigned integers as 16-bit limbs, most significant limb first *)

U64(a, b, c, d) == <<a, b, c, d>>
U32(c, d) == <<c, d>>
\* `n as u32` for a 64-bit n: the low 32 bits
as_u32(n) == <<n[3], n[4]>>
\* a u32 widened back to 64 bits
u32_to_u64(n) == <<0, 0, n[1], n[2]>>
U64_MAX == U64(65535, 65535, 65535, 65535)

----------------------------------------------------------------------------
(* CollisionFlags: a u8 bit set *)

NONE == 0
DISABLE_COLLISION_RESPONSE == 1

\* CollisionFlags::contains: whether bit `flag` (a power of two) is set
contains(flags, flag) == (flags \div flag) % 2 = 1

\* CollisionFlags::from_bits: None when a bit that names no flag is set
from_bits(bits) ==
    IF bits \div (2 * DISABLE_COLLISION_RESPONSE) = 0 THEN Some(bits) ELSE None

----------------------------------------------------------------------------
(* ConvexShape, Contact and the narrow phase: collaborators of RigidBody *)

Dummy == [kind |-> "Dummy", payload |-> <<>>]
Sphere(r) == [kind |-> "Sphere", payload |-> <<r>>]
\* ConvexShape::Triangle(TriangleShape { vertices })
Triangle == [kind |-> "Triangle", payload |-> <<>>]

\* ConvexShape::id: the shape kind tag
shape_id(shape) == IF shape.kind = "Dummy" THEN 0 ELSE 1
\* ConvexShape::new(id): a default shape of that kind
shape_new(id) == IF id = 0 THEN Dummy ELSE Sphere(0)

HandleNONE == "Handle::NONE"

Contact(body, position, normal, triangle_index) ==
    [body |-> body, position |-> position, normal |-> normal,
     triangle_index |-> triangle_index]

PenetrationInfo(v, p) == [penetration_vector |-> v, contact_point |-> p]

\* gjk_epa::gjk_is_intersects; `found` is what the narrow phase finds for
\* two shapes that have geometry; the no-geometry shape intersects nothing
gjk_is_intersects(shape1, shape2, found) ==
    IF shape1.kind = "Dummy" \/ shape2.kind = "Dummy" THEN None ELSE found

\* gjk_epa::epa_get_penetration_info; `found` is what penetration recovery
\* returns for the simplex
epa_get_penetration_info(simplex, found) == found

----------------------------------------------------------------------------
(* RigidBody *)

\* RigidBody::new
new(shape) ==
    [position |-> ZERO,
     last_position |-> ZERO,
     acceleration |-> ZERO,
     friction |-> Unit \div 5,
     gravity |-> Vec3(0, -((981 * Unit) \div 100), 0),
     shape |-> shape,
     contacts |-> <<>>,
     speed_limit |-> (3 * Unit) \div 4,
     lifetime |-> None,
     user_flags |-> U64(0, 0, 0, 0),
     collision_group |-> U64(0, 0, 0, 1),
     collision_mask |-> U64_MAX,
     collision_flags |-> NONE]

\* Default for RigidBody
default == new(Dummy)

\* Clone for RigidBody
clone(self) ==
    [position |-> self.position,
     last_position |-> self.last_position,
     acceleration |-> self.acceleration,
     contacts |-> <<>>,
     friction |-> self.friction,
     gravity |-> self.gravity,
     shape |-> self.shape,
     speed_limit |-> self.speed_limit,
     lifetime |-> self.lifetime,
     user_flags |-> self.user_flags,
     collision_group |-> self.collision_group,
     collision_mask |-> self.collision_mask,
     collision_flags |-> NONE]

set_position(self, p) == [self EXCEPT !.position = p, !.last_position = p]

move_by(self, v) == [self EXCEPT !.position = VAdd(self.position, v)]

set_shape(self, shape) == [self EXCEPT !.shape = shape]

\* set_friction without the upper clamp
set_friction_no_upper_clamp(self, friction) ==
    LET stored == [self EXCEPT !.friction = friction]
    IN IF stored.friction < 0 THEN [stored EXCEPT !.friction = 0] ELSE stored

set_friction(self, friction) ==
    LET stored == [self EXCEPT !.friction = friction]
    IN IF stored.friction < 0 THEN [stored EXCEPT !.friction = 0]
       ELSE IF stored.friction > Unit THEN [stored EXCEPT !.friction = Unit]
       ELSE stored

set_x_velocity(self, x) ==
    [self EXCEPT !.last_position.x = self.position.x - x]

set_y_velocity(self, y) ==
    [self EXCEPT !.last_position.y = self.position.y - y]

set_z_velocity(self, z) ==
    [self EXCEPT !.last_position.z = self.position.z - z]

set_gravity(self, gravity) == [self EXCEPT !.gravity = gravity]

set_lifetime(self, time_seconds) == [self EXCEPT !.lifetime = Some(time_seconds)]

\* a write of the public field collision_flags
set_collision_flags(self, flags) == [self EXCEPT !.collision_flags = flags]

\* verlet_integrate with the damping always taken from the body's friction
verlet_integrate_own_friction(self, sqr_delta_time, air_friction) ==
    LET friction == self.friction
        k1 == 2 * Unit - friction
        k2 == Unit - friction
    IN [self EXCEPT
          !.position = Vec3(
              Mul(k1, self.position.x) - Mul(k2, self.last_position.x)
                  + Mul(self.acceleration.x, sqr_delta_time),
              Mul(k1, self.position.y) - Mul(k2, self.last_position.y)
                  + Mul(self.acceleration.y, sqr_delta_time),
              Mul(k1, self.position.z) - Mul(k2, self.last_position.z)
                  + Mul(self.acceleration.z, sqr_delta_time)),
          !.last_position = self.position,
          !.acceleration = ZERO]

\* verlet, lines 202-223: the damped Verlet update
verlet_integrate(self, sqr_delta_time, air_friction) ==
    LET friction == IF self.contacts # <<>> THEN self.friction ELSE air_friction
        k1 == 2 * Unit - friction
        k2 == Unit - friction
        last_position == self.position
    IN [self EXCEPT
          !.position = Vec3(
              Mul(k1, self.position.x) - Mul(k2, self.last_position.x)
                  + Mul(self.acceleration.x, sqr_delta_time),
              Mul(k1, self.position.y) - Mul(k2, self.last_position.y)
                  + Mul(self.acceleration.y, sqr_delta_time),
              Mul(k1, self.position.z) - Mul(k2, self.last_position.z)
                  + Mul(self.acceleration.z, sqr_delta_time)),
          !.last_position = last_position,
          !.acceleration = ZERO]

\* verlet_clamp with the velocity scaled without being normalized
verlet_clamp_unnormalized(self) ==
    LET velocity == VSub(self.last_position, self.position)
        sqr_speed == sqr_len(velocity)
    IN IF sqr_speed > self.speed_limit * self.speed_limit
       THEN [self EXCEPT !.last_position =
                VSub(self.position, scale(velocity, self.speed_limit))]
       ELSE self

\* verlet, lines 225-231: the speed clamp
verlet_clamp(self) ==
    LET velocity == VSub(self.last_position, self.position)
        sqr_speed == sqr_len(velocity)
        direction == normalized(velocity)
    IN IF sqr_speed > self.speed_limit * self.speed_limit /\ IsSome(direction)
       THEN [self EXCEPT !.last_position =
                VSub(self.position, scale(Unwrap(direction), self.speed_limit))]
       ELSE self

verlet(self, sqr_delta_time, air_friction) ==
    verlet_clamp(verlet_integrate(self, sqr_delta_time, air_friction))

\* the contact solve_triangle_collision records
triangle_contact(info, triangle_index) ==
    Contact(HandleNONE, info.contact_point,
            unwrap_or(normalized(VNeg(info.penetration_vector)), ZERO),
            as_u32(triangle_index))

\* solve_triangle_collision with the contact replacing the recorded ones
solve_triangle_collision_replacing(self, triangle_index, simplex, penetration_info) ==
    LET hit == gjk_is_intersects(self.shape, Triangle, simplex)
        info == IF IsSome(hit)
                THEN epa_get_penetration_info(Unwrap(hit), penetration_info)
                ELSE None
    IN IF IsSome(hit) /\ IsSome(info)
       THEN [self EXCEPT
               !.position = VSub(self.position, Unwrap(info).penetration_vector),
               !.contacts = <<triangle_contact(Unwrap(info), triangle_index)>>]
       ELSE self

\* solve_triangle_collision; simplex and penetration_info are what the
\* narrow phase finds for the body's shape against the triangle
solve_triangle_collision(self, triangle_index, simplex, penetration_info) ==
    LET hit == gjk_is_intersects(self.shape, Triangle, simplex)
        info == IF IsSome(hit)
                THEN epa_get_penetration_info(Unwrap(hit), penetration_info)
                ELSE None
    IN IF IsSome(hit) /\ IsSome(info)
       THEN [self EXCEPT
               !.position = VSub(self.position, Unwrap(info).penetration_vector),
               !.contacts = Append(self.contacts,
                                   triangle_contact(Unwrap(info), triangle_index))]
       ELSE self

\* the contact solve_rigid_body_collision records on each body
body_contact(info) ==
    Contact(HandleNONE, info.contact_point,
            unwrap_or(normalized(VNeg(info.penetration_vector)), UP),
            U32(0, 0))

\* solve_rigid_body_collision with other's push decided by self's flag
solve_rigid_body_collision_self_flag(self, other, simplex, penetration_info) ==
    LET hit == gjk_is_intersects(self.shape, other.shape, simplex)
        info == IF IsSome(hit)
                THEN epa_get_penetration_info(Unwrap(hit), penetration_info)
                ELSE None
    IN IF IsSome(hit) /\ IsSome(info)
       THEN LET half_push == scale(Unwrap(info).penetration_vector, Unit \div 2)
                self1 == IF ~contains(self.collision_flags, DISABLE_COLLISION_RESPONSE)
                         THEN [self EXCEPT !.position = VSub(self.position, half_push)]
                         ELSE self
                other1 == IF ~contains(self.collision_flags, DISABLE_COLLISION_RESPONSE)
                          THEN [other EXCEPT !.position = VAdd(other.position, half_push)]
                          ELSE other
            IN << [self1 EXCEPT !.contacts =
                       Append(self1.contacts, body_contact(Unwrap(info)))],
                  [other1 EXCEPT !.contacts =
                       Append(other1.contacts, body_contact(Unwrap(info)))] >>
       ELSE <<self, other>>

\* solve_rigid_body_collision with a contact recorded on an intersection
\* that has no penetration data
solve_rigid_body_collision_no_data(self, other, simplex, penetration_info) ==
    LET hit == gjk_is_intersects(self.shape, other.shape, simplex)
        info == IF IsSome(hit)
                THEN unwrap_or(epa_get_penetration_info(Unwrap(hit), penetration_info),
                               PenetrationInfo(ZERO, self.position))
                ELSE PenetrationInfo(ZERO, ZERO)
    IN IF IsSome(hit)
       THEN LET half_push == scale(info.penetration_vector, Unit \div 2)
                self1 == IF ~contains(self.collision_flags, DISABLE_COLLISION_RESPONSE)
                         THEN [self EXCEPT !.position = VSub(self.position, half_push)]
                         ELSE self
                other1 == IF ~contains(other.collision_flags, DISABLE_COLLISION_RESPONSE)
                          THEN [other EXCEPT !.position = VAdd(other.position, half_push)]
                          ELSE other
            IN << [self1 EXCEPT !.contacts =
                       Append(self1.contacts, body_contact(info))],
                  [other1 EXCEPT !.contacts =
                       Append(other1.contacts, body_contact(info))] >>
       ELSE <<self, other>>

\* solve_rigid_body_collision: the pair <<self, other>> after the call
solve_rigid_body_collision(self, other, simplex, penetration_info) ==
    LET hit == gjk_is_intersects(self.shape, other.shape, simplex)
        info == IF IsSome(hit)
                THEN epa_get_penetration_info(Unwrap(hit), penetration_info)
                ELSE None
    IN IF IsSome(hit) /\ IsSome(info)
       THEN LET half_push == scale(Unwrap(info).penetration_vector, Unit \div 2)
                self1 == IF ~contains(self.collision_flags, DISABLE_COLLISION_RESPONSE)
                         THEN [self EXCEPT !.position = VSub(self.position, half_push)]
                         ELSE self
                other1 == IF ~contains(other.collision_flags, DISABLE_COLLISION_RESPONSE)
                          THEN [other EXCEPT !.position = VAdd(other.position, half_push)]
                          ELSE other
            IN << [self1 EXCEPT !.contacts =
                       Append(self1.contacts, body_contact(Unwrap(info)))],
                  [other1 EXCEPT !.contacts =
                       Append(other1.contacts, body_contact(Unwrap(info)))] >>
       ELSE <<self, other>>

----------------------------------------------------------------------------
(* Visit for RigidBody: the visitor holds named fields *)

Field(name, value) == [name |-> name, value |-> value]

\* visit in write mode: the fields the body adds to the visitor, in order
visit_write(self) ==
    << Field("ShapeKind", shape_id(self.shape)),
       Field("Shape", self.shape.payload),
       Field("Position", self.position),
       Field("LastPosition", self.last_position),
       Field("Acceleration", self.acceleration),
       Field("Contacts", self.contacts),
       Field("Friction", self.friction),
       Field("Gravity", self.gravity),
       Field("SpeedLimit", self.speed_limit),
       Field("UserFlags", self.user_flags),
       Field("CollisionGroup", self.collision_group),
       Field("CollisionMask", self.collision_mask),
       Field("CollisionFlags", self.collision_flags) >>

HasField(data, name) == \E i \in 1..Len(data) : data[i].name = name
ReadField(data, name) ==
    data[CHOOSE i \in 1..Len(data) : data[i].name = name].value

\* the names visit reads, in order
VisitedNames ==
    << "ShapeKind", "Shape", "Position", "LastPosition", "Acceleration",
       "Contacts", "Friction", "Gravity", "SpeedLimit", "UserFlags",
       "CollisionGroup", "CollisionMask", "CollisionFlags" >>

\* visit in read mode over the fields `data`: the body it leaves, and
\* whether it returned Ok (a missing field or an unknown flag bit is an error)
visit_read(self, data) ==
    LET complete == \A i \in 1..Len(VisitedNames) : HasField(data, VisitedNames[i])
    IN IF ~complete \/ ~IsSome(from_bits(ReadField(data, "CollisionFlags")))
       THEN [ok |-> FALSE, body |-> self]
       ELSE [ok |-> TRUE,
             body |-> [self EXCEPT
                 !.shape = [shape_new(ReadField(data, "ShapeKind")) EXCEPT
                               !.payload = ReadField(data, "Shape")],
                 !.position = ReadField(data, "Position"),
                 !.last_position = ReadField(data, "LastPosition"),
                 !.acceleration = ReadField(data, "Acceleration"),
                 !.contacts = ReadField(data, "Contacts"),
                 !.friction = ReadField(data, "Friction"),
                 !.gravity = ReadField(data, "Gravity"),
                 !.speed_limit = ReadField(data, "SpeedLimit"),
                 !.user_flags = ReadField(data, "UserFlags"),
                 !.collision_group = ReadField(data, "CollisionGroup"),
                 !.collision_mask = ReadField(data, "CollisionMask"),
                 !.collision_flags =
                     Unwrap(from_bits(ReadField(data, "CollisionFlags")))]]

----------------------------------------------------------------------------
(* Inputs of the operations *)

Shapes == {Dummy, Sphere(Unit \div 2)}
PositionInputs == {Vec3(Unit, 0, 0), Vec3(-2 * Unit, 3 * Unit, Unit \div 2)}
FrictionInputs == {-(Unit \div 2), -1, (3 * Unit) \div 10, Unit + 1, 3 * Unit}
VelocityInputs == {Unit \div 10}
GravityInputs == {Vec3(0, -Unit, 0)}
LifetimeInputs == {5 * Unit}
FlagInputs == {NONE, DISABLE_COLLISION_RESPONSE}
SqrDeltaTimeInputs == {Unit \div 100, Unit}
AirFrictionInputs == {0, Unit \div 10, (3 * Unit) \div 2}
\* usize triangle indices: 3, 2^16, 2^32 and 2^32 + 3
IndexInputs == {U64(0, 0, 0, 3), U64(0, 0, 1, 0), U64(0, 1, 0, 0), U64(0, 1, 0, 3)}
\* what the narrow phase may find, <<simplex, penetration_info>>: no
\* intersection, an intersection without penetration data, a penetration,
\* and a penetration whose vector is degenerate
NarrowPhaseInputs ==
    {<<None, None>>,
     <<Some("simplex"), None>>,
     <<Some("simplex"),
       Some(PenetrationInfo(Vec3(Unit \div 2, 0, -Unit), Vec3(Unit \div 4, 0, 0)))>>,
     <<Some("simplex"), Some(PenetrationInfo(ZERO, ZERO))>>}

----------------------------------------------------------------------------
(* The operations as actions *)

Record(op, self, other, args, mid) ==
    [op |-> op, self |-> self, other |-> other, args |-> args,
     pre |-> bodies, mid |-> mid]

\* one call that changes body b to `after`
Call(op, b, args, after) ==
    /\ steps < MaxSteps
    /\ bodies' = [bodies EXCEPT ![b] = after]
    /\ last' = Record(op, b, 0, args, after)
    /\ steps' = steps + 1
    /\ UNCHANGED visitor

SetPosition(b, p) == Call("set_position", b, <<p>>, set_position(bodies[b], p))
MoveBy(b, v) == Call("move_by", b, <<v>>, move_by(bodies[b], v))
SetShape(b, s) == Call("set_shape", b, <<s>>, set_shape(bodies[b], s))
SetFriction(b, f) == Call("set_friction", b, <<f>>, set_friction(bodies[b], f))
SetXVelocity(b, x) == Call("set_x_velocity", b, <<x>>, set_x_velocity(bodies[b], x))
SetYVelocity(b, y) == Call("set_y_velocity", b, <<y>>, set_y_velocity(bodies[b], y))
SetZVelocity(b, z) == Call("set_z_velocity", b, <<z>>, set_z_velocity(bodies[b], z))
SetGravity(b, g) == Call("set_gravity", b, <<g>>, set_gravity(bodies[b], g))
SetLifetime(b, t) == Call("set_lifetime", b, <<t>>, set_lifetime(bodies[b], t))
SetCollisionFlags(b, f) ==
    Call("set_collision_flags", b, <<f>>, set_collision_flags(bodies[b], f))

Verlet(b, sqr_delta_time, air_friction) ==
    /\ steps < MaxSteps
    /\ bodies' = [bodies EXCEPT ![b] = verlet(@, sqr_delta_time, air_friction)]
    /\ last' = Record("verlet", b, 0, <<sqr_delta_time, air_friction>>,
                      verlet_integrate(bodies[b], sqr_delta_time, air_friction))
    /\ steps' = steps + 1
    /\ UNCHANGED visitor

SolveTriangleCollision(b, triangle_index, simplex, penetration_info) ==
    Call("solve_triangle_collision", b,
         <<triangle_index, simplex, penetration_info>>,
         solve_triangle_collision(bodies[b], triangle_index, simplex,
                                  penetration_info))

SolveRigidBodyCollision(a, b, simplex, penetration_info) ==
    /\ steps < MaxSteps
    /\ a # b
    /\ LET after == solve_rigid_body_collision(bodies[a], bodies[b], simplex,
                                               penetration_info)
       IN /\ bodies' = [bodies EXCEPT ![a] = after[1], ![b] = after[2]]
          /\ last' = Record("solve_rigid_body_collision", a, b,
                            <<simplex, penetration_info>>, after[1])
    /\ steps' = steps + 1
    /\ UNCHANGED visitor

\* body `to` becomes a clone of body `from`
Clone(from, to) ==
    /\ steps < MaxSteps
    /\ from # to
    /\ bodies' = [bodies EXCEPT ![to] = clone(bodies[from])]
    /\ last' = Record("clone", from, to, <<>>, bodies[from])
    /\ steps' = steps + 1
    /\ UNCHANGED visitor

Init ==
    /\ bodies \in [Ids -> {set_collision_flags(new(Sphere(Unit \div 2)), f) :
                              f \in FlagInputs}]
    /\ visitor = <<>>
    /\ last = [op |-> "new", self |-> 0, other |-> 0, args |-> <<>>,
               pre |-> bodies, mid |-> bodies[1]]
    /\ steps = 0

Next ==
    \/ \E b \in Ids, p \in PositionInputs : SetPosition(b, p)
    \/ \E b \in Ids, v \in PositionInputs : MoveBy(b, v)
    \/ \E b \in Ids, s \in Shapes : SetShape(b, s)
    \/ \E b \in Ids, f \in FrictionInputs : SetFriction(b, f)
    \/ \E b \in Ids, x \in VelocityInputs : SetXVelocity(b, x)
    \/ \E b \in Ids, y \in VelocityInputs : SetYVelocity(b, y)
    \/ \E b \in Ids, z \in VelocityInputs : SetZVelocity(b, z)
    \/ \E b \in Ids, g \in GravityInputs : SetGravity(b, g)
    \/ \E b \in Ids, t \in LifetimeInputs : SetLifetime(b, t)
    \/ \E b \in Ids, f \in FlagInputs : SetCollisionFlags(b, f)
    \/ \E b \in Ids, dt \in {Unit \div 100}, air \in AirFrictionInputs :
          Verlet(b, dt, air)
    \/ \E b \in Ids, i \in IndexInputs, n \in NarrowPhaseInputs :
          SolveTriangleCollision(b, i, n[1], n[2])
    \/ \E a \in Ids, b \in Ids, n \in NarrowPhaseInputs :
          SolveRigidBodyCollision(a, b, n[1], n[2])
    \/ \E from \in Ids, to \in Ids : Clone(from, to)

Spec == Init /\ [][Next]_vars

----------------------------------------------------------------------------
(* Verlet integration on its own: a body in any state, integrated          *)
(* repeatedly.  acceleration, speed_limit and contacts are set by the      *)
(* stepper (they are crate-visible fields), so the initial body draws them *)
(* from sets.                                                              *)

VerletPositions ==
    {ZERO, Vec3(3 * Unit, 4 * Unit, 0), Vec3(2 * Unit, -3 * Unit, Unit),
     Vec3(-Unit, Unit \div 2, Unit \div 4)}
VerletAccelerations ==
    {ZERO, Vec3(0, -((981 * Unit) \div 100), 0), Vec3(2 * Unit, 3 * Unit, 0)}
VerletFrictions == {0, Unit \div 5, Unit}
VerletSpeedLimits == {(3 * Unit) \div 4, Unit}
VerletContacts ==
    {<<>>, <<Contact(HandleNONE, ZERO, UP, U32(0, 0))>>}

VerletBodies ==
    {[new(Dummy) EXCEPT !.position = p, !.last_position = l,
                        !.acceleration = a, !.friction = f,
                        !.speed_limit = sl, !.contacts = c] :
        p \in VerletPositions, l \in VerletPositions, a \in VerletAccelerations,
        f \in VerletFrictions, sl \in VerletSpeedLimits, c \in VerletContacts}

InitVerlet ==
    /\ \E v \in VerletBodies : bodies = [b \in Ids |-> IF b = 1 THEN v ELSE default]
    /\ visitor = <<>>
    /\ last = [op |-> "new", self |-> 0, other |-> 0, args |-> <<>>,
               pre |-> bodies, mid |-> bodies[1]]
    /\ steps = 0

VerletStep(sqr_delta_time, air_friction) ==
    /\ steps < MaxVerletSteps
    /\ bodies' = [bodies EXCEPT ![1] = verlet(@, sqr_delta_time, air_friction)]
    /\ last' = Record("verlet", 1, 0, <<sqr_delta_time, air_friction>>,
                      verlet_integrate(bodies[1], sqr_delta_time, air_friction))
    /\ steps' = steps + 1
    /\ UNCHANGED visitor

NextVerlet ==
    \E dt \in SqrDeltaTimeInputs, air \in AirFrictionInputs : VerletStep(dt, air)

SpecVerlet == InitVerlet /\ [][NextVerlet]_vars

----------------------------------------------------------------------------
(* Persistence on its own: a body is written to the visitor, then the      *)
(* visitor is read into a body.                                            *)

\* set_lifetime was called on the body that is written
VisitLifetimes == {Some(5 * Unit), Some(Unit \div 2)}
VisitUserFlags == {U64(0, 0, 0, 0), U64(65535, 0, 0, 7)}

VisitBodies ==
    {[new(s) EXCEPT !.position = p, !.last_position = l, !.contacts = c,
                    !.friction = f, !.lifetime = t, !.user_flags = u,
                    !.collision_flags = cf] :
        s \in Shapes, p \in PositionInputs, l \in PositionInputs,
        c \in VerletContacts, f \in VerletFrictions, t \in VisitLifetimes,
        u \in VisitUserFlags, cf \in FlagInputs}

InitVisit ==
    /\ \E v \in VisitBodies : bodies = [b \in Ids |-> IF b = 1 THEN v ELSE default]
    /\ visitor = <<>>
    /\ last = [op |-> "new", self |-> 0, other |-> 0, args |-> <<>>,
               pre |-> bodies, mid |-> bodies[1]]
    /\ steps = 0

\* visit(name, visitor) with the visitor in write mode; the body is unchanged
VisitWrite(b) ==
    /\ visitor = <<>>
    /\ visitor' = visit_write(bodies[b])
    /\ last' = Record("visit_write", b, 0, <<>>, bodies[b])
    /\ steps' = steps + 1
    /\ UNCHANGED bodies

\* visit(name, visitor) with the visitor in read mode
VisitRead(b) ==
    /\ last.op = "visit_write"
    /\ LET r == visit_read(bodies[b], visitor)
       IN /\ bodies' = [bodies EXCEPT ![b] = r.body]
          /\ last' = Record("visit_read", b, last.self, <<r.ok>>, r.body)
    /\ steps' = steps + 1
    /\ UNCHANGED visitor

NextVisit ==
    \/ \E b \in Ids : VisitWrite(b)
    \/ \E b \in Ids : VisitRead(b)

SpecVisit == InitVisit /\ [][NextVisit]_vars

----------------------------------------------------------------------------
(* Claims about verlet, checked under SpecVerlet *)

\* the body verlet was called on, before the call, after the integration
\* (lines 202-223) and after the call
VPre == last.pre[1]
VMid == last.mid
VPost == bodies[1]
\* position - last_position, the implied velocity
Implied(body) == VSub(body.position, body.last_position)
\* the last call was a verlet whose post-update implied velocity is longer
\* than speed_limit
ClampCase ==
    /\ last.op = "verlet"
    /\ sqr_len(Implied(VMid)) > VMid.speed_limit * VMid.speed_limit

\* C1: when the post-update implied velocity is longer than speed_limit, the
\* clamp leaves position as integrated and keeps the direction of the
\* implied velocity: position - last_position after the clamp is a positive
\* multiple of position - last_position before it.  A positive multiple of
\* a vector has a positive dot product with it, which is what rounding
\* leaves of the statement.
C1_ClampKeepsDirection ==
    ClampCase =>
        /\ VPost.position = VMid.position
        /\ Dot(Implied(VPost), Implied(VMid)) > 0

Tolerance(speed_limit) == (speed_limit + Unit - 1) \div Unit + 2

C10_VerletUpdate ==
    last.op = "verlet" =>
        LET f == IF Len(VPre.contacts) > 0 THEN VPre.friction ELSE last.args[2]
            dt == last.args[1]
            axis(p, l, a) == Mul(2 * Unit - f, p) - Mul(Unit - f, l) + Mul(a, dt)
        IN /\ VPost.position.x =
                 axis(VPre.position.x, VPre.last_position.x, VPre.acceleration.x)
           /\ VPost.position.y =
                 axis(VPre.position.y, VPre.last_position.y, VPre.acceleration.y)
           /\ VPost.position.z =
                 axis(VPre.position.z, VPre.last_position.z, VPre.acceleration.z)
           /\ VMid.position = VPost.position
           /\ VMid.last_position = VPre.position
           /\ VPost.acceleration = ZERO

\* C10 witness: a verlet call on a moving body that holds a contact, with a
\* friction other than air_friction and a non-zero acceleration
C10_Witness ==
    /\ last.op = "verlet"
    /\ Len(VPre.contacts) > 0
    /\ VPre.friction # last.args[2]
    /\ VPre.friction > 0
    /\ VPre.position # VPre.last_position
    /\ VPre.acceleration # ZERO
    /\ VPost.position # VPre.position

----------------------------------------------------------------------------
(* Claims about the collision-resolution operations, the setters and the   *)
(* contacts, checked under Spec                                            *)

Pre(b) == last.pre[b]
ResponseDisabled(body) ==
    contains(body.collision_flags, DISABLE_COLLISION_RESPONSE)
Half(v) == Vec3(v.x \div 2, v.y \div 2, v.z \div 2)

\* the last call was a solve_triangle_collision that found a penetration
TriangleHit ==
    /\ last.op = "solve_triangle_collision"
    /\ IsSome(gjk_is_intersects(Pre(last.self).shape, Triangle, last.args[2]))
    /\ IsSome(last.args[3])

\* the last call was a solve_rigid_body_collision that found a penetration
BodyHit ==
    /\ last.op = "solve_rigid_body_collision"
    /\ IsSome(gjk_is_intersects(Pre(last.self).shape, Pre(last.other).shape,
                                last.args[1]))
    /\ IsSome(last.args[2])

\* C3: in solve_rigid_body_collision(self, other) with penetration vector d,
\* self.position decreases by d/2 if self lacks DISABLE_COLLISION_RESPONSE
\* and is kept if it has it, other.position increases by d/2 if other lacks
\* the flag and is kept if it has it, and each body gains exactly one
\* contact whatever the flags are.
C3_BodiesHandledIndependently ==
    BodyHit =>
        LET d == Unwrap(last.args[2]).penetration_vector
            self == last.self
            other == last.other
        IN /\ ~ResponseDisabled(Pre(self)) =>
                  bodies[self].position = VSub(Pre(self).position, Half(d))
           /\ ResponseDisabled(Pre(self)) =>
                  bodies[self].position = Pre(self).position
           /\ ~ResponseDisabled(Pre(other)) =>
                  bodies[other].position = VAdd(Pre(other).position, Half(d))
           /\ ResponseDisabled(Pre(other)) =>
                  bodies[other].position = Pre(other).position
           /\ Len(bodies[self].contacts) = Len(Pre(self).contacts) + 1
           /\ Len(bodies[other].contacts) = Len(Pre(other).contacts) + 1

\* C3 witness: a penetrating body-body call where self has the response
\* disabled and other has not, and other moved
C3_Witness ==
    /\ BodyHit
    /\ ResponseDisabled(Pre(last.self))
    /\ ~ResponseDisabled(Pre(last.other))
    /\ bodies[last.other].position # Pre(last.other).position
    /\ bodies[last.self].position = Pre(last.self).position

\* C4: a body whose collision_flags contains DISABLE_COLLISION_RESPONSE is
\* not moved by any collision-resolution operation, in either role, while
\* every intersecting call still appends a contact to it.
C4_DisabledResponseKeepsPosition ==
    \A b \in Ids :
        (/\ TriangleHit \/ BodyHit
         /\ b \in {last.self, last.other}
         /\ ResponseDisabled(Pre(b))) =>
            /\ bodies[b].position = Pre(b).position
            /\ Len(bodies[b].contacts) = Len(Pre(b).contacts) + 1

\* C5: the contact an intersecting solve_triangle_collision appends has
\* triangle_index equal to the triangle_index argument, for every usize.
C5_TriangleIndexKept ==
    TriangleHit =>
        LET contacts == bodies[last.self].contacts
        IN u32_to_u64(contacts[Len(contacts)].triangle_index) = last.args[1]

\* the narrow phase reported no intersection, or no penetration data
NoPenetration ==
    \/ /\ last.op = "solve_triangle_collision"
       /\ ~TriangleHit
    \/ /\ last.op = "solve_rigid_body_collision"
       /\ ~BodyHit

\* C6: when the narrow phase reports no intersection, or an intersection
\* without penetration data, solve_triangle_collision and
\* solve_rigid_body_collision leave every field of every body unchanged.
C6_NoPenetrationNoEffect == NoPenetration => bodies = last.pre

\* C6 witness: a body-body call on two moved bodies with geometry for which
\* the narrow phase found an intersection and no penetration data
C6_Witness ==
    /\ last.op = "solve_rigid_body_collision"
    /\ IsSome(last.args[1])
    /\ ~IsSome(last.args[2])
    /\ Pre(1).shape.kind # "Dummy"
    /\ Pre(2).shape.kind # "Dummy"
    /\ \E b \in Ids : Pre(b).position # ZERO

Clamp01(f) == IF f < 0 THEN 0 ELSE IF f > Unit THEN Unit ELSE f

IsPrefix(s, t) == Len(s) <= Len(t) /\ \A i \in 1..Len(s) : s[i] = t[i]

ContactOperations ==
    {"verlet", "solve_triangle_collision", "solve_rigid_body_collision",
     "set_position", "move_by", "set_shape", "set_friction", "set_x_velocity",
     "set_y_velocity", "set_z_velocity", "set_gravity", "set_lifetime",
     "set_collision_flags"}

\* the bodies the last intersecting collision call involved
Involved ==
    IF TriangleHit THEN {last.self}
    ELSE IF BodyHit THEN {last.self, last.other}
    ELSE {}

\* C9: over verlet, the collision-resolution operations and the setters a
\* body's contacts only grow: the contacts recorded before a call stay as a
\* prefix, an intersecting collision call appends exactly one record, with
\* a null body reference, to each body involved, and nothing else appends.
C9_ContactsOnlyGrow ==
    last.op \in ContactOperations =>
        \A b \in Ids :
            /\ IsPrefix(Pre(b).contacts, bodies[b].contacts)
            /\ IF b \in Involved
               THEN /\ Len(bodies[b].contacts) = Len(Pre(b).contacts) + 1
                    /\ bodies[b].contacts[Len(bodies[b].contacts)].body = HandleNONE
               ELSE bodies[b].contacts = Pre(b).contacts

\* C9 witness: an intersecting collision call on a body that already held a
\* contact
C9_Witness ==
    /\ TriangleHit \/ BodyHit
    /\ Len(Pre(last.self).contacts) > 0
    /\ Len(bodies[last.self].contacts) = Len(Pre(last.self).contacts) + 1

----------------------------------------------------------------------------
(* Claim about persistence, checked under SpecVisit *)

\* the place of a field in the visitor
Place(name) == CHOOSE i \in 1..Len(visitor) : visitor[i].name = name

ScalarAndVectorFields ==
    {"Position", "LastPosition", "Acceleration", "Friction", "Gravity",
     "SpeedLimit"}
FlagFields == {"UserFlags", "CollisionGroup", "CollisionMask", "CollisionFlags"}

\* C7: writing a body with visit and reading the result into another body
\* reproduces every field of the body, lifetime included, and the fields
\* are visited in the order shape kind tag, shape payload, scalar and vector
\* fields, contact list, flags.
C7_VisitRoundTrip ==
    (last.op = "visit_read" /\ last.self # last.other) =>
        /\ bodies[last.self] = bodies[last.other]
        /\ Place("ShapeKind") = 1
        /\ Place("Shape") = 2
        /\ \A f \in ScalarAndVectorFields :
               Place("Shape") < Place(f) /\ Place(f) < Place("Contacts")
        /\ \A f \in FlagFields : Place("Contacts") < Place(f)

====
